---- MODULE Spec2Model ----
(***************************************************************************)
(* Model of the self-update pipeline of polymarket-cli                     *)
(* (src/src/commands/upgrade.rs).                                          *)
(*                                                                         *)
(* A string is a sequence of tokens whose concatenation is the string.     *)
(* The characters that the code inspects one by one ('v' of a tag prefix,  *)
(* '.' and '/' of a "./" marker, hex digits of a digest) are tokens of     *)
(* their own; a word that the code never looks into is one token.          *)
(***************************************************************************)
EXTENDS Integers, Sequences, FiniteSets, TLC

(***************************************************************************)
(* Bounds of the model.                                                    *)
(***************************************************************************)
\* most leading 'v' characters on a release tag served by the registry
MaxPrefix == 2
\* most lines of a served checksums.txt
MaxLines == 2

(***************************************************************************)
(* Program constants and string helpers.                                   *)
(***************************************************************************)
BINARY == <<"polymarket">>

\* env!("CARGO_PKG_VERSION"): the version compiled into the running binary
current_version == <<"1", ".", "0">>

\* str::trim_start_matches(pat): strips every leading repetition of pat
RECURSIVE TrimStartMatches(_, _)
TrimStartMatches(s, pat) ==
    IF Len(s) >= Len(pat) /\ SubSeq(s, 1, Len(pat)) = pat
    THEN TrimStartMatches(SubSeq(s, Len(pat) + 1, Len(s)), pat)
    ELSE s

\* format!("{BINARY}-{latest_tag}-{target}.tar.gz")
TarballName(latest_tag, target) ==
    BINARY \o <<"-">> \o latest_tag \o <<"-", target, ".tar.gz">>

\* an anyhow::Result: Ok(()) or an error with its chain of messages,
\* outermost context first
Ok == [ok |-> TRUE, chain |-> <<>>]
Err(chain) == [ok |-> FALSE, chain |-> chain]
Context(msg, chain) == <<msg>> \o chain

(***************************************************************************)
(* detect_target                                                           *)
(***************************************************************************)
OSes == {"macos", "linux", "windows"}
Arches == {"x86_64", "aarch64", "arm"}

\* detect_target as it would be with the linux/aarch64 arm left out
detect_target_without_linux_aarch64(os, arch) ==
    CASE os = "macos" /\ arch = "x86_64" ->
            [ok |-> TRUE, val |-> "x86_64-apple-darwin", chain |-> <<>>]
      [] os = "macos" /\ arch = "aarch64" ->
            [ok |-> TRUE, val |-> "aarch64-apple-darwin", chain |-> <<>>]
      [] os = "linux" /\ arch = "x86_64" ->
            [ok |-> TRUE, val |-> "x86_64-unknown-linux-gnu", chain |-> <<>>]
      [] OTHER ->
            [ok |-> FALSE, val |-> "",
             chain |-> <<"Unsupported platform: {os}/{arch}", os, arch>>]

detect_target(os, arch) ==
    CASE os = "macos" /\ arch = "x86_64" ->
            [ok |-> TRUE, val |-> "x86_64-apple-darwin", chain |-> <<>>]
      [] os = "macos" /\ arch = "aarch64" ->
            [ok |-> TRUE, val |-> "aarch64-apple-darwin", chain |-> <<>>]
      [] os = "linux" /\ arch = "x86_64" ->
            [ok |-> TRUE, val |-> "x86_64-unknown-linux-gnu", chain |-> <<>>]
      [] os = "linux" /\ arch = "aarch64" ->
            [ok |-> TRUE, val |-> "aarch64-unknown-linux-gnu", chain |-> <<>>]
      [] OTHER ->
            [ok |-> FALSE, val |-> "",
             chain |-> <<"Unsupported platform: {os}/{arch}", os, arch>>]

(***************************************************************************)
(* verify_checksum                                                         *)
(***************************************************************************)
\* the archives the release storage may serve: byte strings, told apart by name
Archives == {"genuine", "tampered", "nobinary"}

\* whether unpacking the archive yields a file named BINARY at its top level
ContainsBinary(a) == a \in {"genuine", "tampered"}

\* the SHA-256 digest of an archive as shasum / sha256sum print it:
\* lower-case hex, one token per hex digit
Sha256Hex(a) ==
    CASE a = "genuine" -> <<"a", "1">>
      [] a = "tampered" -> <<"b", "2">>
      [] OTHER -> <<"c", "3">>

MismatchMsg ==
    "Checksum mismatch!\n  Expected: {expected_hash}\n  Got:      {actual_hash}\n\nThe downloaded binary may have been tampered with. Aborting."
NoEntryMsg == "No checksum found for {expected_name} in checksums.txt"

\* one line of checksums.txt, as line.split_whitespace() sees it: the
\* sequence of its fields
NameMatches(name, expected_name) ==
    \/ name = expected_name
    \/ TrimStartMatches(name, <<".", "/">>) = expected_name

\* the closure of find_map: Some(hash) or None for one line
LineHash(line, expected_name) ==
    IF Len(line) < 2 THEN <<>>
    ELSE IF NameMatches(line[2], expected_name) THEN <<line[1]>>
    ELSE <<>>

\* the lookup as it would be if only the first line were examined
FindHash_first_line_only(lines, expected_name) ==
    IF lines = <<>> THEN <<>> ELSE LineHash(Head(lines), expected_name)

\* lines().find_map(..): the hash of the first line that yields one
RECURSIVE FindHash(_, _)
FindHash(lines, expected_name) ==
    IF lines = <<>> THEN <<>>
    ELSE IF LineHash(Head(lines), expected_name) # <<>>
         THEN LineHash(Head(lines), expected_name)
         ELSE FindHash(Tail(lines), expected_name)

\* what the hash tools can do: shasum is tried first, sha256sum only when
\* shasum could not be started
HashTools == {"shasum_ok", "shasum_exit_fail", "shasum_missing_sha256sum_ok",
              "shasum_missing_sha256sum_exit_fail", "both_missing",
              "empty_stdout"}

\* verify_checksum as it would be if an empty digest were let through
verify_checksum_empty_digest_passes(file, readable, checksums, expected_name, tool) ==
    IF ~readable THEN Err(<<"Failed to read checksums.txt", "io error">>)
    ELSE IF FindHash(checksums, expected_name) = <<>>
    THEN Err(<<NoEntryMsg>>)
    ELSE IF tool = "both_missing"
    THEN Err(<<"Failed to compute SHA256 (need shasum or sha256sum)", "io error">>)
    ELSE IF tool \in {"shasum_exit_fail", "shasum_missing_sha256sum_exit_fail"}
    THEN Err(<<"Failed to compute SHA256 of downloaded file">>)
    ELSE LET expected_hash == FindHash(checksums, expected_name)[1]
             actual_hash == IF tool = "empty_stdout" THEN <<>> ELSE Sha256Hex(file)
         IN  IF actual_hash # <<>> /\ actual_hash # expected_hash
             THEN Err(<<MismatchMsg>>) ELSE Ok

\* readable: whether checksums.txt can be read; checksums: its lines;
\* file: the archive at file_path; tool: the behaviour of the hash tools
verify_checksum(file, readable, checksums, expected_name, tool) ==
    IF ~readable THEN Err(<<"Failed to read checksums.txt", "io error">>)
    ELSE IF FindHash(checksums, expected_name) = <<>>
    THEN Err(<<NoEntryMsg>>)
    ELSE IF tool = "both_missing"
    THEN Err(<<"Failed to compute SHA256 (need shasum or sha256sum)", "io error">>)
    ELSE IF tool \in {"shasum_exit_fail", "shasum_missing_sha256sum_exit_fail"}
    THEN Err(<<"Failed to compute SHA256 of downloaded file">>)
    ELSE LET expected_hash == FindHash(checksums, expected_name)[1]
             actual_hash == IF tool = "empty_stdout" THEN <<>> ELSE Sha256Hex(file)
         IN  IF actual_hash # expected_hash THEN Err(<<MismatchMsg>>) ELSE Ok

(***************************************************************************)
(* What the environment can serve or answer.                               *)
(***************************************************************************)
Versions == {<<"1", ".", "0">>, <<"1", ".", "1">>, <<"0", ".", "9">>}

\* k copies of a token
RECURSIVE Rep(_, _)
Rep(tok, k) == IF k = 0 THEN <<>> ELSE <<tok>> \o Rep(tok, k - 1)

\* the tag_name values the registry may answer with
Tags == {Rep("v", k) \o ver : k \in 0..MaxPrefix, ver \in Versions}

UpperHex(h) ==
    [i \in 1..Len(h) |-> CASE h[i] = "a" -> "A" [] h[i] = "b" -> "B"
                           [] h[i] = "c" -> "C" [] OTHER -> h[i]]

\* the lines a served checksums.txt may hold when the name looked for is n
ManifestLines(n) ==
    { <<Sha256Hex("genuine"), n>>,
      <<Sha256Hex("nobinary"), n>>,
      <<Sha256Hex("genuine"), <<".", "/">> \o n>>,
      <<Sha256Hex("genuine"), <<".", "/", ".", "/">> \o n>>,
      <<UpperHex(Sha256Hex("genuine")), n>>,
      <<Sha256Hex("tampered"), n>>,
      <<Sha256Hex("genuine")>>,
      <<Sha256Hex("genuine"), <<"x">> \o n>> }

RECURSIVE SeqsUpTo(_, _)
SeqsUpTo(S, k) ==
    IF k = 0 THEN {<<>>}
    ELSE SeqsUpTo(S, k - 1) \cup
         {Append(q, x) : q \in {r \in SeqsUpTo(S, k - 1) : Len(r) = k - 1}, x \in S}

Manifests(n) == SeqsUpTo(ManifestLines(n), MaxLines)

\* fs::rename inside the directory of the executable
RenameOutcomes(srcExists, writable) ==
    IF ~srcExists THEN {"NotFound"}
    ELSE IF ~writable THEN {"PermissionDenied"}
    ELSE {"Ok", "Other"}

\* Command::new("sudo").args(["mv", from, to]).status()
SudoOutcomes(srcExists) ==
    IF srcExists THEN {"Ok", "ExitFail", "SpawnErr"} ELSE {"ExitFail", "SpawnErr"}

\* sudo_mv as it would be if it dropped the exit status of `sudo mv`
sudo_mv_ignoring_status(outcome) ==
    IF outcome = "SpawnErr" THEN Err(<<"io error">>) ELSE Ok

\* the io::Error sudo_mv returns
sudo_mv(outcome) ==
    IF outcome = "Ok" THEN Ok
    ELSE IF outcome = "ExitFail" THEN Err(<<"sudo mv failed">>)
    ELSE Err(<<"io error">>)

(***************************************************************************)
(* State of one run of execute.                                            *)
(***************************************************************************)
VARIABLES
    pc,          \* the step execute is about to perform
    os, arch,    \* std::env::consts::OS / ARCH
    canWrite,    \* whether the user may rename inside the executable's directory
    latest_tag,  \* the tag get_latest_tag returned
    target,      \* the triple detect_target returned
    tmpdir,      \* the scratch directory: "none", "exists" or "removed"
    tarball,     \* the archive at {tmpdir}/polymarket.tar.gz, or "none"
    checksums,   \* {tmpdir}/checksums.txt
    newBinary,   \* whether {tmpdir}/polymarket exists
    live,        \* what exe_path holds: "old", "absent" or the archive installed
    backup,      \* what {exe_path}.bak holds: "absent" or "old"
    pending,     \* the error e of the second move, while the rollback runs
    result,      \* what execute returned
    stdout,      \* the lines printed
    log,         \* the steps performed so far, each with its outcome
    swallowed,   \* the steps whose failure was discarded with `let _ =`
    \* two runs of the Installer phase against one executable path
    rpc,         \* the step each run is about to perform
    rlive,       \* what exe_path holds: "old", "absent" or the run whose binary it is
    rbackup,     \* what {exe_path}.bak holds, likewise
    rnew,        \* whether each run's {tmpdir}/polymarket exists
    rwrite,      \* whether the user may rename inside the executable's directory
    rresult,     \* what each run returned
    \* the wallet commands
    wconfig,     \* the private key in the wallet config, or <<>> when there is none
    wlast,       \* the last wallet command run, with what it did
    \* one call of a parsing function
    pfn,         \* the function called
    pin,         \* its argument
    pout         \* its result, once it has returned

upgradeVars == <<pc, os, arch, canWrite, latest_tag, target, tmpdir, tarball, checksums,
                 newBinary, live, backup, pending, result, stdout, log, swallowed>>
raceVars == <<rpc, rlive, rbackup, rnew, rwrite, rresult>>
walletVars == <<wconfig, wlast>>
pureVars == <<pfn, pin, pout>>
vars == <<upgradeVars, raceVars, walletVars, pureVars>>

\* the runs of the race
Runs == {"A", "B"}

\* the parts of the state that a specification leaves aside
RaceIdle ==
    /\ rpc = [r \in Runs |-> "idle"]
    /\ rlive = "old"
    /\ rbackup = "absent"
    /\ rnew = [r \in Runs |-> FALSE]
    /\ rwrite = FALSE
    /\ rresult = [r \in Runs |-> "idle"]
WalletIdle ==
    /\ wconfig = <<>>
    /\ wlast = [cmd |-> "none"]
PureIdle ==
    /\ pfn = "none"
    /\ pin = <<>>
    /\ pout = [kind |-> "idle"]

NoResult == [ok |-> FALSE, chain |-> <<"running">>]

UpgradeIdle ==
    /\ pc = "idle"
    /\ os = "linux"
    /\ arch = "x86_64"
    /\ canWrite = FALSE
    /\ latest_tag = <<>>
    /\ target = ""
    /\ tmpdir = "none"
    /\ tarball = "none"
    /\ checksums = [present |-> FALSE, lines |-> <<>>]
    /\ newBinary = FALSE
    /\ live = "old"
    /\ backup = "absent"
    /\ pending = <<>>
    /\ result = NoResult
    /\ stdout = <<>>
    /\ log = <<>>
    /\ swallowed = {}

Init ==
    /\ pc = "get_latest_tag"
    /\ os \in OSes
    /\ arch \in Arches
    /\ canWrite \in BOOLEAN
    /\ latest_tag = <<>>
    /\ target = ""
    /\ tmpdir = "none"
    /\ tarball = "none"
    /\ checksums = [present |-> FALSE, lines |-> <<>>]
    /\ newBinary = FALSE
    /\ live = "old"
    /\ backup = "absent"
    /\ pending = <<>>
    /\ result = NoResult
    /\ stdout = <<>>
    /\ log = <<>>
    /\ swallowed = {}
    /\ RaceIdle
    /\ WalletIdle
    /\ PureIdle

Step(name, res) == log' = Append(log, [step |-> name, res |-> res])

\* `?` or bail!: execute returns the error at once
Return(r) == pc' = "done" /\ result' = r

\* upgrade.rs 11-15 and get_latest_tag
GetLatestTag ==
    /\ pc = "get_latest_tag"
    /\ UNCHANGED <<raceVars, walletVars, pureVars>>
    /\ stdout' = stdout \o <<"Current version: v{current_version}", "Checking for updates...">>
    /\ \/ /\ Step("get_latest_tag", "SpawnErr")
          /\ Return(Err(<<"Failed to check for latest release", "io error">>))
          /\ UNCHANGED latest_tag
       \/ /\ Step("get_latest_tag", "ExitFail")
          /\ Return(Err(<<"Failed to fetch latest release info from GitHub">>))
          /\ UNCHANGED latest_tag
       \/ /\ Step("get_latest_tag", "BadJson")
          /\ Return(Err(<<"Failed to parse GitHub API response", "json error">>))
          /\ UNCHANGED latest_tag
       \/ /\ Step("get_latest_tag", "NoTagName")
          /\ Return(Err(<<"No tag_name in release response">>))
          /\ UNCHANGED latest_tag
       \/ \E t \in Tags :
             /\ Step("get_latest_tag", "Ok")
             /\ latest_tag' = t
             /\ pc' = "compare"
             /\ UNCHANGED result
    /\ UNCHANGED <<os, arch, canWrite, target, tmpdir, tarball, checksums,
                   newBinary, live, backup, pending, swallowed>>

\* an order on the versions of the model, oldest first
VersionRank(v) ==
    CASE v = <<"0", ".", "9">> -> 0
      [] v = <<"1", ".", "0">> -> 1
      [] OTHER -> 2

\* the comparison as it would be if only a newer version counted as an update
CompareVersion_only_newer ==
    /\ pc = "compare"
    /\ UNCHANGED <<raceVars, walletVars, pureVars>>
    /\ LET latest_version == TrimStartMatches(latest_tag, <<"v">>)
       IN  IF VersionRank(latest_version) <= VersionRank(current_version)
           THEN /\ stdout' = Append(stdout, "Already up to date.")
                /\ Step("compare", "Equal")
                /\ Return(Ok)
           ELSE /\ stdout' = Append(stdout, "New version available: {latest_tag}")
                /\ Step("compare", "Differ")
                /\ pc' = "detect_target"
                /\ UNCHANGED result
    /\ UNCHANGED <<os, arch, canWrite, latest_tag, target, tmpdir, tarball, checksums,
                   newBinary, live, backup, pending, swallowed>>

\* the comparison as it would be if the tag were compared unstripped
CompareVersion_unstripped ==
    /\ pc = "compare"
    /\ UNCHANGED <<raceVars, walletVars, pureVars>>
    /\ IF latest_tag = current_version
       THEN /\ stdout' = Append(stdout, "Already up to date.")
            /\ Step("compare", "Equal")
            /\ Return(Ok)
       ELSE /\ stdout' = Append(stdout, "New version available: {latest_tag}")
            /\ Step("compare", "Differ")
            /\ pc' = "detect_target"
            /\ UNCHANGED result
    /\ UNCHANGED <<os, arch, canWrite, latest_tag, target, tmpdir, tarball, checksums,
                   newBinary, live, backup, pending, swallowed>>

\* upgrade.rs 16-23
CompareVersion ==
    /\ pc = "compare"
    /\ UNCHANGED <<raceVars, walletVars, pureVars>>
    /\ LET latest_version == TrimStartMatches(latest_tag, <<"v">>)
       IN  IF latest_version = current_version
           THEN /\ stdout' = Append(stdout, "Already up to date.")
                /\ Step("compare", "Equal")
                /\ Return(Ok)
           ELSE /\ stdout' = Append(stdout, "New version available: {latest_tag}")
                /\ Step("compare", "Differ")
                /\ pc' = "detect_target"
                /\ UNCHANGED result
    /\ UNCHANGED <<os, arch, canWrite, latest_tag, target, tmpdir, tarball, checksums,
                   newBinary, live, backup, pending, swallowed>>

\* upgrade.rs 25
DetectTarget ==
    /\ pc = "detect_target"
    /\ UNCHANGED <<raceVars, walletVars, pureVars>>
    /\ LET r == detect_target(os, arch)
       IN  IF r.ok
           THEN /\ target' = r.val
                /\ Step("detect_target", "Ok")
                /\ pc' = "current_exe"
                /\ UNCHANGED result
           ELSE /\ Step("detect_target", "Err")
                /\ Return(Err(r.chain))
                /\ UNCHANGED target
    /\ UNCHANGED <<os, arch, canWrite, latest_tag, tmpdir, tarball, checksums,
                   newBinary, live, backup, pending, stdout, swallowed>>

\* upgrade.rs 30
CurrentExe ==
    /\ pc = "current_exe"
    /\ UNCHANGED <<raceVars, walletVars, pureVars>>
    /\ \/ /\ Step("current_exe", "Err")
          /\ Return(Err(<<"Failed to determine current executable path", "io error">>))
       \/ /\ Step("current_exe", "Ok")
          /\ pc' = "tempdir"
          /\ UNCHANGED result
    /\ UNCHANGED <<os, arch, canWrite, latest_tag, target, tmpdir, tarball, checksums,
                   newBinary, live, backup, pending, stdout, swallowed>>

\* upgrade.rs 32 and tempdir
Tempdir ==
    /\ pc = "tempdir"
    /\ UNCHANGED <<raceVars, walletVars, pureVars>>
    /\ \/ /\ Step("tempdir", "SpawnErr")
          /\ Return(Err(<<"Failed to create temp directory", "io error">>))
          /\ UNCHANGED <<tmpdir, stdout>>
       \/ /\ Step("tempdir", "ExitFail")
          /\ Return(Err(<<"mktemp failed">>))
          /\ UNCHANGED <<tmpdir, stdout>>
       \/ /\ Step("tempdir", "Ok")
          /\ tmpdir' = "exists"
          /\ stdout' = Append(stdout, "Downloading {latest_tag} ({target})...")
          /\ pc' = "curl_archive"
          /\ UNCHANGED result
    /\ UNCHANGED <<os, arch, canWrite, latest_tag, target, tarball, checksums,
                   newBinary, live, backup, pending, swallowed>>

\* the download as it would be if a failed transfer were tried again
DownloadArchive_retried ==
    /\ pc = "curl_archive"
    /\ UNCHANGED <<raceVars, walletVars, pureVars>>
    /\ \/ /\ Step("curl_archive", "SpawnErr")
          /\ Return(Err(<<"Failed to run curl", "io error">>))
          /\ UNCHANGED tarball
       \/ /\ Step("curl_archive", "ExitFail")
          /\ pc' = "curl_archive"
          /\ UNCHANGED <<tarball, result>>
       \/ \E a \in Archives :
             /\ Step("curl_archive", "Ok")
             /\ tarball' = a
             /\ pc' = "curl_checksums"
             /\ UNCHANGED result
    /\ UNCHANGED <<os, arch, canWrite, latest_tag, target, tmpdir, checksums,
                   newBinary, live, backup, pending, stdout, swallowed>>

\* upgrade.rs 41-47
DownloadArchive ==
    /\ pc = "curl_archive"
    /\ UNCHANGED <<raceVars, walletVars, pureVars>>
    /\ \/ /\ Step("curl_archive", "SpawnErr")
          /\ Return(Err(<<"Failed to run curl", "io error">>))
          /\ UNCHANGED tarball
       \/ /\ Step("curl_archive", "ExitFail")
          /\ Return(Err(<<"Download failed (HTTP error)">>))
          /\ UNCHANGED tarball
       \/ \E a \in Archives :
             /\ Step("curl_archive", "Ok")
             /\ tarball' = a
             /\ pc' = "curl_checksums"
             /\ UNCHANGED result
    /\ UNCHANGED <<os, arch, canWrite, latest_tag, target, tmpdir, checksums,
                   newBinary, live, backup, pending, stdout, swallowed>>

\* the download as it would be if curl's exit status were not looked at
DownloadChecksums_status_ignored ==
    /\ pc = "curl_checksums"
    /\ UNCHANGED <<raceVars, walletVars, pureVars>>
    /\ \/ /\ Step("curl_checksums", "SpawnErr")
          /\ Return(Err(<<"Failed to download checksums", "io error">>))
          /\ UNCHANGED checksums
       \/ /\ Step("curl_checksums", "ExitFail")
          /\ pc' = "verify"
          /\ UNCHANGED <<checksums, result>>
       \/ \E m \in Manifests(TarballName(latest_tag, target)) :
             /\ Step("curl_checksums", "Ok")
             /\ checksums' = [present |-> TRUE, lines |-> m]
             /\ pc' = "verify"
             /\ UNCHANGED result
    /\ UNCHANGED <<os, arch, canWrite, latest_tag, target, tmpdir, tarball,
                   newBinary, live, backup, pending, stdout, swallowed>>

\* upgrade.rs 49-56
DownloadChecksums ==
    /\ pc = "curl_checksums"
    /\ UNCHANGED <<raceVars, walletVars, pureVars>>
    /\ \/ /\ Step("curl_checksums", "SpawnErr")
          /\ Return(Err(<<"Failed to download checksums", "io error">>))
          /\ UNCHANGED checksums
       \/ /\ Step("curl_checksums", "ExitFail")
          /\ Return(Err(<<"Failed to download checksums.txt - cannot verify integrity">>))
          /\ UNCHANGED checksums
       \/ \E m \in Manifests(TarballName(latest_tag, target)) :
             /\ Step("curl_checksums", "Ok")
             /\ checksums' = [present |-> TRUE, lines |-> m]
             /\ pc' = "verify"
             /\ UNCHANGED result
    /\ UNCHANGED <<os, arch, canWrite, latest_tag, target, tmpdir, tarball,
                   newBinary, live, backup, pending, stdout, swallowed>>

\* the call as it would be if its result were dropped instead of returned with `?`
VerifyChecksum_result_dropped ==
    /\ pc = "verify"
    /\ UNCHANGED <<raceVars, walletVars, pureVars>>
    /\ \E readable \in BOOLEAN, tool \in HashTools :
          LET r == verify_checksum(tarball, readable, checksums.lines,
                                   TarballName(latest_tag, target), tool)
          IN  /\ Step("verify_checksum", IF r.ok THEN "Ok" ELSE "Err")
              /\ stdout' = IF r.ok THEN Append(stdout, "Checksum verified.") ELSE stdout
              /\ pc' = "tar"
              /\ UNCHANGED result
    /\ UNCHANGED <<os, arch, canWrite, latest_tag, target, tmpdir, tarball, checksums,
                   newBinary, live, backup, pending, swallowed>>

\* upgrade.rs 58
VerifyChecksum ==
    /\ pc = "verify"
    /\ UNCHANGED <<raceVars, walletVars, pureVars>>
    /\ \E readable \in BOOLEAN, tool \in HashTools :
          LET r == verify_checksum(tarball, readable, checksums.lines,
                                   TarballName(latest_tag, target), tool)
          IN  IF r.ok
              THEN /\ Step("verify_checksum", "Ok")
                   /\ stdout' = Append(stdout, "Checksum verified.")
                   /\ pc' = "tar"
                   /\ UNCHANGED result
              ELSE /\ Step("verify_checksum", "Err")
                   /\ Return(r)
                   /\ UNCHANGED stdout
    /\ UNCHANGED <<os, arch, canWrite, latest_tag, target, tmpdir, tarball, checksums,
                   newBinary, live, backup, pending, swallowed>>

\* the extraction as it would be if tar's exit status were not looked at
Extract_status_ignored ==
    /\ pc = "tar"
    /\ UNCHANGED <<raceVars, walletVars, pureVars>>
    /\ \/ /\ Step("tar", "SpawnErr")
          /\ Return(Err(<<"Failed to extract archive", "io error">>))
          /\ UNCHANGED newBinary
       \/ /\ Step("tar", "ExitFail")
          /\ pc' = "exe_path"
          /\ UNCHANGED <<newBinary, result>>
       \/ /\ Step("tar", "Ok")
          /\ newBinary' = ContainsBinary(tarball)
          /\ pc' = "exe_path"
          /\ UNCHANGED result
    /\ UNCHANGED <<os, arch, canWrite, latest_tag, target, tmpdir, tarball, checksums,
                   live, backup, pending, stdout, swallowed>>

\* upgrade.rs 60-68
Extract ==
    /\ pc = "tar"
    /\ UNCHANGED <<raceVars, walletVars, pureVars>>
    /\ \/ /\ Step("tar", "SpawnErr")
          /\ Return(Err(<<"Failed to extract archive", "io error">>))
          /\ UNCHANGED newBinary
       \/ /\ Step("tar", "ExitFail")
          /\ Return(Err(<<"Failed to extract archive">>))
          /\ UNCHANGED newBinary
       \/ /\ Step("tar", "Ok")
          /\ newBinary' = ContainsBinary(tarball)
          /\ pc' = "exe_path"
          /\ UNCHANGED result
    /\ UNCHANGED <<os, arch, canWrite, latest_tag, target, tmpdir, tarball, checksums,
                   live, backup, pending, stdout, swallowed>>

\* upgrade.rs 71-72
ExePath ==
    /\ pc = "exe_path"
    /\ UNCHANGED <<raceVars, walletVars, pureVars>>
    /\ \/ /\ Step("exe_path", "Err")
          /\ Return(Err(<<"Non-UTF8 executable path">>))
       \/ /\ Step("exe_path", "Ok")
          /\ pc' = "rename1"
          /\ UNCHANGED result
    /\ UNCHANGED <<os, arch, canWrite, latest_tag, target, tmpdir, tarball, checksums,
                   newBinary, live, backup, pending, stdout, swallowed>>

\* the first move as it would be if it copied the executable instead
MoveLiveToBackup_copy == live' = live /\ backup' = live

\* the effect of moving exe_path to {exe_path}.bak
MoveLiveToBackup == live' = "absent" /\ backup' = live

\* the effect of moving {tmpdir}/polymarket to exe_path
MoveNewToLive == live' = tarball /\ newBinary' = FALSE

\* the first move as it would be with and_then in place of or_else
Rename1_and_then ==
    /\ pc = "rename1"
    /\ UNCHANGED <<raceVars, walletVars, pureVars>>
    /\ \E o \in RenameOutcomes(live # "absent", canWrite) :
          /\ Step("rename1", o)
          /\ IF o = "Ok"
             THEN MoveLiveToBackup /\ pc' = "sudo_mv1" /\ UNCHANGED result
             ELSE /\ Return(Err(<<"Failed to replace binary (try running with sudo)",
                                  "io error">>))
                  /\ UNCHANGED <<live, backup>>
    /\ UNCHANGED <<os, arch, canWrite, latest_tag, target, tmpdir, tarball, checksums,
                   newBinary, pending, stdout, swallowed>>

\* upgrade.rs 75: fs::rename(exe_path, &backup)
Rename1 ==
    /\ pc = "rename1"
    /\ UNCHANGED <<raceVars, walletVars, pureVars>>
    /\ \E o \in RenameOutcomes(live # "absent", canWrite) :
          /\ Step("rename1", o)
          /\ IF o = "Ok"
             THEN MoveLiveToBackup /\ pc' = "rename2"
             ELSE pc' = "sudo_mv1" /\ UNCHANGED <<live, backup>>
    /\ UNCHANGED <<os, arch, canWrite, latest_tag, target, tmpdir, tarball, checksums,
                   newBinary, pending, result, stdout, swallowed>>

\* upgrade.rs 76-77: .or_else(|_| sudo_mv(exe_path, &backup)).context(..)?
SudoMv1 ==
    /\ pc = "sudo_mv1"
    /\ UNCHANGED <<raceVars, walletVars, pureVars>>
    /\ \E o \in SudoOutcomes(live # "absent") :
          /\ Step("sudo_mv1", o)
          /\ IF sudo_mv(o).ok
             THEN MoveLiveToBackup /\ pc' = "rename2" /\ UNCHANGED result
             ELSE /\ Return(Err(Context("Failed to replace binary (try running with sudo)",
                                        sudo_mv(o).chain)))
                  /\ UNCHANGED <<live, backup>>
    /\ UNCHANGED <<os, arch, canWrite, latest_tag, target, tmpdir, tarball, checksums,
                   newBinary, pending, stdout, swallowed>>

\* upgrade.rs 79: fs::rename(&new_binary, exe_path)
Rename2 ==
    /\ pc = "rename2"
    /\ UNCHANGED <<raceVars, walletVars, pureVars>>
    /\ \E o \in RenameOutcomes(newBinary, canWrite) :
          /\ Step("rename2", o)
          /\ IF o = "Ok"
             THEN MoveNewToLive /\ pc' = "set_permissions"
             ELSE pc' = "sudo_mv2" /\ UNCHANGED <<live, newBinary>>
    /\ UNCHANGED <<os, arch, canWrite, latest_tag, target, tmpdir, tarball, checksums,
                   backup, pending, result, stdout, swallowed>>

\* upgrade.rs 79: .or_else(|_| sudo_mv(&new_binary, exe_path))
SudoMv2 ==
    /\ pc = "sudo_mv2"
    /\ UNCHANGED <<raceVars, walletVars, pureVars>>
    /\ \E o \in SudoOutcomes(newBinary) :
          /\ Step("sudo_mv2", o)
          /\ IF sudo_mv(o).ok
             THEN MoveNewToLive /\ pc' = "set_permissions" /\ UNCHANGED pending
             ELSE /\ pending' = sudo_mv(o).chain
                  /\ pc' = "rollback"
                  /\ UNCHANGED <<live, newBinary>>
    /\ UNCHANGED <<os, arch, canWrite, latest_tag, target, tmpdir, tarball, checksums,
                   backup, result, stdout, swallowed>>

\* the rollback as it would be if its failure were returned as an error of its own
Rollback_failure_reported ==
    /\ pc = "rollback"
    /\ UNCHANGED <<raceVars, walletVars, pureVars>>
    /\ \E o \in RenameOutcomes(backup # "absent", canWrite) :
          /\ Step("rollback", o)
          /\ IF o = "Ok"
             THEN /\ live' = backup /\ backup' = "absent"
                  /\ Return(Err(Context("Failed to install new binary", pending)))
             ELSE /\ UNCHANGED <<live, backup>>
                  /\ Return(Err(<<"Rollback failed: restore {backup} manually">>))
    /\ UNCHANGED <<os, arch, canWrite, latest_tag, target, tmpdir, tarball, checksums,
                   newBinary, pending, stdout, swallowed>>

\* upgrade.rs 80-82: let _ = fs::rename(&backup, exe_path); return Err(e).context(..)
Rollback ==
    /\ pc = "rollback"
    /\ UNCHANGED <<raceVars, walletVars, pureVars>>
    /\ \E o \in RenameOutcomes(backup # "absent", canWrite) :
          /\ Step("rollback", o)
          /\ IF o = "Ok"
             THEN live' = backup /\ backup' = "absent" /\ UNCHANGED swallowed
             ELSE swallowed' = swallowed \cup {"rollback"} /\ UNCHANGED <<live, backup>>
    /\ Return(Err(Context("Failed to install new binary", pending)))
    /\ UNCHANGED <<os, arch, canWrite, latest_tag, target, tmpdir, tarball, checksums,
                   newBinary, pending, stdout>>

\* upgrade.rs 86-90: let _ = fs::set_permissions(exe_path, 0o755)
SetPermissions ==
    /\ pc = "set_permissions"
    /\ UNCHANGED <<raceVars, walletVars, pureVars>>
    /\ \E o \in {"Ok", "Err"} :
          /\ Step("set_permissions", o)
          /\ swallowed' = IF o = "Ok" THEN swallowed ELSE swallowed \cup {"set_permissions"}
    /\ pc' = "remove_backup"
    /\ UNCHANGED <<os, arch, canWrite, latest_tag, target, tmpdir, tarball, checksums,
                   newBinary, live, backup, pending, result, stdout>>

\* upgrade.rs 92: let _ = fs::remove_file(&backup)
RemoveBackup ==
    /\ pc = "remove_backup"
    /\ UNCHANGED <<raceVars, walletVars, pureVars>>
    /\ \E o \in {"Ok", "Err"} :
          /\ Step("remove_backup", o)
          /\ IF o = "Ok"
             THEN backup' = "absent" /\ UNCHANGED swallowed
             ELSE swallowed' = swallowed \cup {"remove_backup"} /\ UNCHANGED backup
    /\ pc' = "remove_tmpdir"
    /\ UNCHANGED <<os, arch, canWrite, latest_tag, target, tmpdir, tarball, checksums,
                   newBinary, live, pending, result, stdout>>

\* upgrade.rs 93-96: let _ = fs::remove_dir_all(&tmpdir); println!; Ok(())
RemoveTmpdir ==
    /\ pc = "remove_tmpdir"
    /\ UNCHANGED <<raceVars, walletVars, pureVars>>
    /\ \E o \in {"Ok", "Err"} :
          /\ Step("remove_tmpdir", o)
          /\ IF o = "Ok"
             THEN /\ tmpdir' = "removed"
                  /\ tarball' = "none"
                  /\ checksums' = [present |-> FALSE, lines |-> <<>>]
                  /\ UNCHANGED swallowed
             ELSE /\ swallowed' = swallowed \cup {"remove_tmpdir"}
                  /\ UNCHANGED <<tmpdir, tarball, checksums>>
    /\ stdout' = Append(stdout, "Updated to {latest_tag}")
    /\ Return(Ok)
    /\ UNCHANGED <<os, arch, canWrite, latest_tag, target, newBinary, live, backup,
                   pending>>

\* the user interrupts the process: it stops where it is
Interrupt ==
    /\ pc \notin {"done", "interrupted"}
    /\ UNCHANGED <<raceVars, walletVars, pureVars>>
    /\ pc' = "interrupted"
    /\ UNCHANGED <<os, arch, canWrite, latest_tag, target, tmpdir, tarball, checksums,
                   newBinary, live, backup, pending, result, stdout, log, swallowed>>

Next ==
    \/ GetLatestTag
    \/ CompareVersion
    \/ DetectTarget
    \/ CurrentExe
    \/ Tempdir
    \/ DownloadArchive
    \/ DownloadChecksums
    \/ VerifyChecksum
    \/ Extract
    \/ ExePath
    \/ Rename1
    \/ SudoMv1
    \/ Rename2
    \/ SudoMv2
    \/ Rollback
    \/ SetPermissions
    \/ RemoveBackup
    \/ RemoveTmpdir
    \/ Interrupt

Spec == Init /\ [][Next]_vars

(***************************************************************************)
(* Reading the log.                                                        *)
(***************************************************************************)
Did(name) == \E i \in 1..Len(log) : log[i].step = name
DidWith(name, res) == \E i \in 1..Len(log) : log[i].step = name /\ log[i].res = res
Returned == pc = "done"

TypeOK ==
    /\ live \in {"old", "absent"} \cup Archives
    /\ backup \in {"old", "absent"}
    /\ tmpdir \in {"none", "exists", "removed"}


\* the error messages of upgrade.rs that warn of tampering
TamperWarnings == {MismatchMsg}
WarnsTamper(r) == \E i \in 1..Len(r.chain) : r.chain[i] \in TamperWarnings

InstallSteps == {"tar", "rename1", "sudo_mv1", "rename2", "sudo_mv2", "rollback",
                 "set_permissions", "remove_backup"}

FirstMoveSucceeded == DidWith("rename1", "Ok") \/ DidWith("sudo_mv1", "Ok")
FirstMoveFailed == Did("sudo_mv1") /\ ~DidWith("sudo_mv1", "Ok")
SecondMoveFailed == Did("sudo_mv2") /\ ~DidWith("sudo_mv2", "Ok")

StateA == live = "old" /\ backup = "absent"
StateB == live = "absent" /\ backup = "old"
StateC == live \in Archives /\ backup = "absent"
StateD == live \in Archives /\ backup = "old"

(***************************************************************************)
(* C1: extraction and every move of the live executable happen only after  *)
(* verify_checksum returned success earlier in the same run; after a       *)
(* verification failure no extraction step and no install step is          *)
(* performed, and the live and backup paths are untouched.                 *)
(***************************************************************************)
C1_VerifiedBeforeInstall ==
    /\ \A i \in 1..Len(log) :
          log[i].step \in InstallSteps =>
             \E j \in 1..(i - 1) : log[j] = [step |-> "verify_checksum", res |-> "Ok"]
    /\ (live # "old" \/ backup # "absent" \/ newBinary) =>
          DidWith("verify_checksum", "Ok")
    /\ DidWith("verify_checksum", "Err") =>
          /\ \A i \in 1..Len(log) : log[i].step \notin InstallSteps
          /\ Returned /\ ~result.ok
          /\ StateA /\ ~newBinary

C1_Witness ==
    /\ Returned /\ result.ok
    /\ DidWith("verify_checksum", "Ok")
    /\ Did("tar")
    /\ live = "genuine"

(***************************************************************************)
(* C2 as stated: at every point the pair (live_path, backup_path) is in    *)
(* one of the three states (a), (b), (c).                                  *)
(***************************************************************************)
C2_ThreeStates == StateA \/ StateB \/ StateC

(***************************************************************************)
(* C2 amended: at every point the pair is in exactly one of four states:   *)
(* (a), (b), (c), or (d) live_path holds the new executable while          *)
(* backup_path still holds the pre-update executable; (d) is entered by    *)
(* the second move and left only by a successful deletion of the backup.   *)
(***************************************************************************)
C2_FourStates ==
    /\ StateA \/ StateB \/ StateC \/ StateD
    /\ StateD => (DidWith("rename2", "Ok") \/ DidWith("sudo_mv2", "Ok"))
                 /\ ~DidWith("remove_backup", "Ok")
    /\ StateB => FirstMoveSucceeded
    /\ StateC => DidWith("remove_backup", "Ok")

C2_Witness ==
    /\ pc = "remove_backup"
    /\ StateD

(***************************************************************************)
(* C3: if the first move succeeded and the second move failed, retry       *)
(* included, then when execute returns live_path holds the pre-update      *)
(* executable and nothing remains at backup_path.                          *)
(***************************************************************************)
C3_RolledBackOnReturn ==
    (Returned /\ FirstMoveSucceeded /\ SecondMoveFailed) => StateA

(***************************************************************************)
(* C4: when the second move and the rollback both fail, execute returns    *)
(* an error other than the ordinary "Failed to install new binary" one.    *)
(***************************************************************************)
C4_RollbackFailureDistinct ==
    (Returned /\ SecondMoveFailed /\ Did("rollback") /\ ~DidWith("rollback", "Ok")) =>
       /\ ~result.ok
       /\ result.chain[1] # "Failed to install new binary"

(***************************************************************************)
(* C5: whenever execute returns after the scratch directory was created,   *)
(* the deletion of the scratch directory has been attempted.               *)
(***************************************************************************)
C5_ScratchRemovedOnReturn ==
    (Returned /\ DidWith("tempdir", "Ok")) => Did("remove_tmpdir")

(***************************************************************************)
(* C6: whenever execute returns success after an update, live_path holds   *)
(* the new executable, nothing exists at backup_path and the scratch       *)
(* directory no longer exists.                                             *)
(***************************************************************************)
C6_SuccessPostcondition ==
    (Returned /\ result.ok /\ stdout[Len(stdout)] = "Updated to {latest_tag}") =>
       /\ live \in Archives
       /\ backup = "absent"
       /\ tmpdir = "removed"

(***************************************************************************)
(* C7: execute never returns leaving live_path absent while backup_path    *)
(* holds the pre-update executable.                                        *)
(***************************************************************************)
C7_NoMidStateOnReturn == Returned => ~StateB

(***************************************************************************)
(* C8: if the first move fails both directly and through sudo_mv, execute  *)
(* returns the "try running with sudo" error, the second move is never     *)
(* attempted, and live_path and backup_path are as before the run.         *)
(***************************************************************************)
C8_FirstMoveFailureAborts ==
    FirstMoveFailed =>
       /\ Returned /\ ~result.ok
       /\ result.chain[1] = "Failed to replace binary (try running with sudo)"
       /\ ~Did("rename2") /\ ~Did("sudo_mv2") /\ ~Did("rollback")
       /\ StateA

C8_Witness ==
    /\ Returned
    /\ DidWith("rename1", "PermissionDenied")
    /\ DidWith("sudo_mv1", "ExitFail")

(***************************************************************************)
(* C9: when the latest tag, stripped of its prefix, equals the current     *)
(* version, the run consists of the metadata request and the comparison    *)
(* only: nothing is downloaded, created, verified, extracted or moved, and *)
(* execute returns success.                                                *)
(***************************************************************************)
C9_UpToDateDoesNothing ==
    (DidWith("get_latest_tag", "Ok")
        /\ TrimStartMatches(latest_tag, <<"v">>) = current_version) =>
       /\ \A i \in 1..Len(log) : log[i].step \in {"get_latest_tag", "compare"}
       /\ pc \in {"compare", "done", "interrupted"}
       /\ tmpdir = "none" /\ tarball = "none" /\ ~checksums.present /\ ~newBinary
       /\ StateA
       /\ Returned => result.ok /\ stdout[Len(stdout)] = "Already up to date."

C9_Witness ==
    /\ Returned /\ result.ok
    /\ latest_tag = <<"v", "1", ".", "0">>
    /\ DidWith("compare", "Equal")

(***************************************************************************)
(* C10: every verification failure, the missing-entry one and the digest   *)
(* mismatch one, returns an error that warns of tampering.                 *)
(***************************************************************************)
C10_FailureWarnsTamper ==
    (Returned /\ DidWith("verify_checksum", "Err")
        /\ result.chain[1] \in {NoEntryMsg, MismatchMsg}) => WarnsTamper(result)

\* the name verify_checksum looks for and the inputs it is given in this run
ExpectedName == TarballName(latest_tag, target)
FoundHash == FindHash(checksums.lines, ExpectedName)
\* the hash tools that start, exit with success and print a digest
WorkingTools == {"shasum_ok", "shasum_missing_sha256sum_ok"}
\* verify_checksum on the files of this run, for a given archive and tool
VerifyHere(a, tool) ==
    verify_checksum(a, TRUE, checksums.lines, ExpectedName, tool)

(***************************************************************************)
(* C11: verify_checksum compares the computed digest with the manifest's   *)
(* hash ignoring letter case: it accepts exactly when the two are equal    *)
(* once both are put in upper case.                                        *)
(***************************************************************************)
C11_CaseInsensitiveCompare ==
    (pc = "verify" /\ FoundHash # <<>>) =>
       \A tool \in WorkingTools :
          VerifyHere(tarball, tool).ok <=>
             UpperHex(Sha256Hex(tarball)) = UpperHex(FoundHash[1])

(***************************************************************************)
(* C12: with an entry for the expected name in the manifest and a working  *)
(* hash tool, verify_checksum succeeds exactly when the archive's digest   *)
(* is the hash of the (first) matching entry; an archive of other content  *)
(* is rejected against the same manifest, and an empty computed digest is  *)
(* never accepted.  A run goes past verification only in that case.        *)
(***************************************************************************)
C12_AcceptsExactlyMatchingDigest ==
    /\ (pc = "verify" /\ FoundHash # <<>>) =>
          /\ \A tool \in WorkingTools :
                /\ VerifyHere(tarball, tool).ok <=> Sha256Hex(tarball) = FoundHash[1]
                /\ \A a \in Archives \ {tarball} :
                      VerifyHere(tarball, tool).ok => ~VerifyHere(a, tool).ok
          /\ ~VerifyHere(tarball, "empty_stdout").ok
    /\ (DidWith("verify_checksum", "Ok") /\ tmpdir = "exists") =>
          /\ FoundHash # <<>>
          /\ Sha256Hex(tarball) = FoundHash[1]

C12_Witness ==
    /\ pc = "tar"
    /\ tarball = "tampered"
    /\ FoundHash = <<Sha256Hex("tampered")>>

\* whether no line of the downloaded checksums.txt names the expected file
NoLineMatches ==
    \A i \in 1..Len(checksums.lines) :
       \/ Len(checksums.lines[i]) < 2
       \/ ~NameMatches(checksums.lines[i][2], ExpectedName)

(***************************************************************************)
(* C13: verify_checksum fails with the missing-entry error exactly when no *)
(* line of the manifest has a second field matching the expected name      *)
(* (an empty manifest and lines of fewer than two fields included), and    *)
(* then it does so whatever the archive and whatever the hash tools do.    *)
(***************************************************************************)
C13_MissingEntry ==
    /\ pc = "verify" =>
          \A a \in Archives, tool \in HashTools :
             NoLineMatches <=> VerifyHere(a, tool) = Err(<<NoEntryMsg>>)
    /\ (Returned /\ DidWith("verify_checksum", "Err") /\ result = Err(<<NoEntryMsg>>)) =>
          NoLineMatches

C13_Witness ==
    /\ Returned
    /\ result = Err(<<NoEntryMsg>>)
    /\ Len(checksums.lines) = 2
    /\ Len(checksums.lines[1]) = 1
    /\ Len(checksums.lines[2]) = 2
    /\ checksums.lines[2][2] = <<"x">> \o ExpectedName

(***************************************************************************)
(* C14: a manifest record matches only when its filename field is the      *)
(* expected name or the expected name behind one leading "./": a run gets  *)
(* past the manifest lookup only if the manifest holds such a record.      *)
(***************************************************************************)
C14_MatchesExactOrOneMarker ==
    (DidWith("verify_checksum", "Ok") /\ tmpdir = "exists") =>
       \E i \in 1..Len(checksums.lines) :
          /\ Len(checksums.lines[i]) >= 2
          /\ checksums.lines[i][2] \in {ExpectedName, <<".", "/">> \o ExpectedName}

SupportedPairs ==
    {<<"macos", "x86_64">>, <<"macos", "aarch64">>,
     <<"linux", "x86_64">>, <<"linux", "aarch64">>}

(***************************************************************************)
(* C15: detect_target gives the documented triple for each of the four     *)
(* supported (os, arch) pairs and fails with the unsupported-platform      *)
(* error naming os and arch for every other pair.                          *)
(***************************************************************************)
C15_DetectTargetTable ==
    Did("detect_target") =>
       /\ (os = "macos" /\ arch = "x86_64") =>
             DidWith("detect_target", "Ok") /\ target = "x86_64-apple-darwin"
       /\ (os = "macos" /\ arch = "aarch64") =>
             DidWith("detect_target", "Ok") /\ target = "aarch64-apple-darwin"
       /\ (os = "linux" /\ arch = "x86_64") =>
             DidWith("detect_target", "Ok") /\ target = "x86_64-unknown-linux-gnu"
       /\ (os = "linux" /\ arch = "aarch64") =>
             DidWith("detect_target", "Ok") /\ target = "aarch64-unknown-linux-gnu"
       /\ <<os, arch>> \notin SupportedPairs =>
             /\ DidWith("detect_target", "Err")
             /\ Returned
             /\ result = Err(<<"Unsupported platform: {os}/{arch}", os, arch>>)

C15_Witness ==
    /\ Returned
    /\ os = "linux" /\ arch = "arm"
    /\ DidWith("detect_target", "Err")

Printed(line) == \E i \in 1..Len(stdout) : stdout[i] = line

(***************************************************************************)
(* C16: on an unsupported (os, arch) pair no network request is issued,    *)
(* the release metadata request included, and execute returns the          *)
(* unsupported-platform error.                                             *)
(***************************************************************************)
C16_PlatformResolvedFirst ==
    <<os, arch>> \notin SupportedPairs =>
       /\ ~Did("get_latest_tag")
       /\ Returned => result = Err(<<"Unsupported platform: {os}/{arch}", os, arch>>)

\* the steps that precede verification, and those that follow a download
DownloadSteps == {"curl_archive", "curl_checksums"}
AfterDownloadSteps == {"verify_checksum"} \cup InstallSteps

(***************************************************************************)
(* C17: when the archive download or the checksums download does not end   *)
(* with a success status, execute returns an error and performs no         *)
(* verification, extraction or install step.                               *)
(***************************************************************************)
C17_DownloadFailureAborts ==
    \A i \in 1..Len(log) :
       (log[i].step \in DownloadSteps /\ log[i].res # "Ok") =>
          /\ Returned /\ ~result.ok
          /\ \A j \in 1..Len(log) : log[j].step \notin AfterDownloadSteps
          /\ StateA /\ ~newBinary

C17_Witness ==
    /\ Returned
    /\ tarball = "genuine"
    /\ DidWith("curl_archive", "Ok")
    /\ DidWith("curl_checksums", "ExitFail")

\* the steps before the Installer phase and their outcomes that are not failures
PreInstallSteps == {"get_latest_tag", "compare", "detect_target", "current_exe",
                    "tempdir", "curl_archive", "curl_checksums", "verify_checksum",
                    "tar", "exe_path"}
NotFailure == {"Ok", "Equal", "Differ"}

(***************************************************************************)
(* C18: a failure of any step before the Installer phase ends the run with *)
(* an error, live_path still holding the pre-update executable and nothing *)
(* at backup_path; no step follows the failed one.                         *)
(***************************************************************************)
C18_EarlyFailureLeavesFilesAlone ==
    \A i \in 1..Len(log) :
       (log[i].step \in PreInstallSteps /\ log[i].res \notin NotFailure) =>
          /\ i = Len(log)
          /\ Returned /\ ~result.ok
          /\ StateA

C18_Witness ==
    /\ Returned /\ ~result.ok
    /\ DidWith("verify_checksum", "Ok")
    /\ DidWith("tar", "ExitFail")

(***************************************************************************)
(* C19: the comparison stops the run with "Already up to date." exactly    *)
(* when the stripped tag equals the current version; for any other         *)
(* version, older ones included, the run announces a new version and goes  *)
(* on, and a successful return then means that release was installed.      *)
(***************************************************************************)
C19_EqualityIsTheOnlyTest ==
    Did("compare") =>
       /\ DidWith("compare", "Equal") <=>
             TrimStartMatches(latest_tag, <<"v">>) = current_version
       /\ Printed("Already up to date.") <=> DidWith("compare", "Equal")
       /\ Printed("New version available: {latest_tag}") <=> DidWith("compare", "Differ")
       /\ (DidWith("compare", "Differ") /\ Returned /\ result.ok) =>
             live = tarball \/ (live \in Archives /\ tmpdir = "removed")

C19_Witness ==
    /\ Returned /\ result.ok
    /\ latest_tag = <<"v", "0", ".", "9">>
    /\ live = "genuine"

(***************************************************************************)
(* C20: the version compared with the current one is the tag with one      *)
(* optional leading 'v' removed and nothing else changed, so the run stops *)
(* as up to date exactly when the tag less one leading 'v' is the current  *)
(* version.                                                                *)
(***************************************************************************)
C20_OnePrefixCharacterStripped ==
    LET stripped == IF latest_tag # <<>> /\ Head(latest_tag) = "v"
                    THEN Tail(latest_tag) ELSE latest_tag
    IN  Did("compare") => (DidWith("compare", "Equal") <=> stripped = current_version)

(***************************************************************************)
(* C21: when execute returns, no failure other than that of the scratch    *)
(* directory's removal has been discarded: a failed set_permissions,       *)
(* backup deletion or rollback is reported.                                *)
(***************************************************************************)
C21_OnlyCleanupFailureDiscarded ==
    Returned => swallowed \subseteq {"remove_tmpdir"}

\* the positions in the log of a step
Positions(name) == {i \in 1..Len(log) : log[i].step = name}

Stage(name) ==
    CASE name = "get_latest_tag" -> 1
      [] name = "curl_archive" -> 2
      [] name = "curl_checksums" -> 3
      [] name = "verify_checksum" -> 4
      [] name = "tar" -> 5
      [] name \in {"rename1", "sudo_mv1"} -> 6
      [] name \in {"rename2", "sudo_mv2"} -> 7
      [] OTHER -> 0
\* whether the log entry i is the failure of its stage: for a move, the
\* failure of its retry
StageFailedAt(i) ==
    /\ Stage(log[i].step) > 0
    /\ log[i].res # "Ok"
    /\ log[i].step \notin {"rename1", "rename2"}
StageSucceeded(k) ==
    \E i \in 1..Len(log) : Stage(log[i].step) = k /\ log[i].res = "Ok"

(***************************************************************************)
(* C29: the metadata request, the two downloads, verification, extraction, *)
(* the first move and the second move each start at most once, in that     *)
(* order, each only after its predecessor succeeded; after the failure of  *)
(* one of them none of the seven is executed.                              *)
(***************************************************************************)
C29_SinglePassInOrder ==
    /\ \A i, j \in 1..Len(log) :
          (i < j /\ Stage(log[i].step) > 0 /\ Stage(log[j].step) > 0) =>
             /\ log[i].step # log[j].step
             /\ Stage(log[i].step) <= Stage(log[j].step)
    /\ \A i \in 1..Len(log) :
          Stage(log[i].step) > 1 => StageSucceeded(Stage(log[i].step) - 1)
    /\ \A i \in 1..Len(log) :
          StageFailedAt(i) => \A j \in (i + 1)..Len(log) : Stage(log[j].step) = 0

C29_Witness ==
    /\ Returned
    /\ DidWith("sudo_mv1", "Ok")
    /\ DidWith("sudo_mv2", "ExitFail")
    /\ Did("rollback")

(***************************************************************************)
(* C30: after a failed second move the rollback is attempted exactly once, *)
(* as the last step and by direct rename, and execute returns "Failed to   *)
(* install new binary" over the second move's error whether the rollback   *)
(* succeeded or not; a failed rollback leaves live_path absent.            *)
(***************************************************************************)
C30_RollbackOnceResultIgnored ==
    /\ Cardinality(Positions("rollback")) <= 1
    /\ \A i \in Positions("rollback") :
          /\ i = Len(log) /\ i > 1
          /\ log[i - 1].step = "sudo_mv2" /\ log[i - 1].res # "Ok"
          /\ Returned
          /\ result = Err(Context("Failed to install new binary",
                                  sudo_mv(log[i - 1].res).chain))
          /\ log[i].res = "Ok" => StateA
          /\ log[i].res # "Ok" => StateB
    /\ (Returned /\ SecondMoveFailed) => Did("rollback")

C30_Witness ==
    /\ Returned
    /\ DidWith("rename1", "PermissionDenied")
    /\ DidWith("sudo_mv1", "Ok")
    /\ DidWith("rollback", "PermissionDenied")
    /\ StateB

(***************************************************************************)
(* Two runs of the Installer phase (upgrade.rs 71-93) against one          *)
(* executable path.  Each run has passed verification and extraction and   *)
(* holds its own scratch directory; exe_path and {exe_path}.bak are the    *)
(* same two paths for both.  A rename replaces whatever is at its          *)
(* destination.                                                            *)
(***************************************************************************)
RaceInit ==
    /\ rpc = [r \in Runs |-> "rename1"]
    /\ rlive = "old"
    /\ rbackup = "absent"
    /\ rnew \in [Runs -> BOOLEAN]
    /\ rwrite \in BOOLEAN
    /\ rresult = [r \in Runs |-> "running"]
    /\ UpgradeIdle
    /\ WalletIdle
    /\ PureIdle

R_Goto(p, step) == rpc' = [rpc EXCEPT ![p] = step]

R_Return(p, r) ==
    /\ rpc' = [rpc EXCEPT ![p] = "done"]
    /\ rresult' = [rresult EXCEPT ![p] = r]

\* exe_path moves to {exe_path}.bak
R_MoveLiveToBackup ==
    /\ rbackup' = rlive
    /\ rlive' = "absent"

\* run p's {tmpdir}/polymarket moves to exe_path
R_MoveNewToLive(p) ==
    /\ rlive' = p
    /\ rnew' = [rnew EXCEPT ![p] = FALSE]

\* a first move that waits until no other run is between its first move
\* and its backup deletion
R_Rename1_locked(p) ==
    /\ rpc[p] = "rename1"
    /\ \A q \in Runs \ {p} : rpc[q] \in {"rename1", "sudo_mv1", "done"}
    /\ \E o \in RenameOutcomes(rlive # "absent", rwrite) :
          IF o = "Ok"
          THEN R_MoveLiveToBackup /\ R_Goto(p, "rename2")
          ELSE R_Goto(p, "sudo_mv1") /\ UNCHANGED <<rlive, rbackup>>
    /\ UNCHANGED <<rnew, rwrite, rresult, upgradeVars, walletVars, pureVars>>

R_Rename1(p) ==
    /\ rpc[p] = "rename1"
    /\ \E o \in RenameOutcomes(rlive # "absent", rwrite) :
          IF o = "Ok"
          THEN R_MoveLiveToBackup /\ R_Goto(p, "rename2")
          ELSE R_Goto(p, "sudo_mv1") /\ UNCHANGED <<rlive, rbackup>>
    /\ UNCHANGED <<rnew, rwrite, rresult, upgradeVars, walletVars, pureVars>>

R_SudoMv1(p) ==
    /\ rpc[p] = "sudo_mv1"
    /\ \E o \in SudoOutcomes(rlive # "absent") :
          IF sudo_mv(o).ok
          THEN R_MoveLiveToBackup /\ R_Goto(p, "rename2") /\ UNCHANGED rresult
          ELSE R_Return(p, "replace_failed") /\ UNCHANGED <<rlive, rbackup>>
    /\ UNCHANGED <<rnew, rwrite, upgradeVars, walletVars, pureVars>>

R_Rename2(p) ==
    /\ rpc[p] = "rename2"
    /\ \E o \in RenameOutcomes(rnew[p], rwrite) :
          IF o = "Ok"
          THEN R_MoveNewToLive(p) /\ R_Goto(p, "set_permissions")
          ELSE R_Goto(p, "sudo_mv2") /\ UNCHANGED <<rlive, rnew>>
    /\ UNCHANGED <<rbackup, rwrite, rresult, upgradeVars, walletVars, pureVars>>

R_SudoMv2(p) ==
    /\ rpc[p] = "sudo_mv2"
    /\ \E o \in SudoOutcomes(rnew[p]) :
          IF sudo_mv(o).ok
          THEN R_MoveNewToLive(p) /\ R_Goto(p, "set_permissions")
          ELSE R_Goto(p, "rollback") /\ UNCHANGED <<rlive, rnew>>
    /\ UNCHANGED <<rbackup, rwrite, rresult, upgradeVars, walletVars, pureVars>>

R_Rollback(p) ==
    /\ rpc[p] = "rollback"
    /\ \E o \in RenameOutcomes(rbackup # "absent", rwrite) :
          IF o = "Ok"
          THEN rlive' = rbackup /\ rbackup' = "absent"
          ELSE UNCHANGED <<rlive, rbackup>>
    /\ R_Return(p, "install_failed")
    /\ UNCHANGED <<rnew, rwrite, upgradeVars, walletVars, pureVars>>

R_SetPermissions(p) ==
    /\ rpc[p] = "set_permissions"
    /\ R_Goto(p, "remove_backup")
    /\ UNCHANGED <<rlive, rbackup, rnew, rwrite, rresult, upgradeVars, walletVars, pureVars>>

\* fs::remove_file(&backup), then the scratch directory, then Ok
R_RemoveBackup(p) ==
    /\ rpc[p] = "remove_backup"
    /\ \/ rbackup # "absent" /\ rwrite /\ rbackup' = "absent"
       \/ UNCHANGED rbackup
    /\ R_Return(p, "updated")
    /\ UNCHANGED <<rlive, rnew, rwrite, upgradeVars, walletVars, pureVars>>

RaceNext ==
    \E p \in Runs :
       \/ R_Rename1(p)
       \/ R_SudoMv1(p)
       \/ R_Rename2(p)
       \/ R_SudoMv2(p)
       \/ R_Rollback(p)
       \/ R_SetPermissions(p)
       \/ R_RemoveBackup(p)

SpecRace == RaceInit /\ [][RaceNext]_vars

\* run p is between its first move and its backup deletion
InWindow(p) == rpc[p] \in {"rename2", "sudo_mv2", "rollback", "set_permissions", "remove_backup"}

BothInWindow == \A p \in Runs : InWindow(p)

(***************************************************************************)
(* C22: nothing excludes a second run: whenever a run is about to make its *)
(* first move, the executable is there and the directory is writable, the  *)
(* move can succeed, whatever the other run is doing; and whenever both    *)
(* runs are between their first move and their backup deletion, the backup *)
(* path no longer holds the pre-update executable (one run has renamed     *)
(* onto it or deleted it).                                                 *)
(***************************************************************************)
C22_NoMutualExclusion ==
    /\ \A p \in Runs :
          (rpc[p] = "rename1" /\ rlive # "absent" /\ rwrite) =>
             ENABLED (R_Rename1(p) /\ rpc'[p] = "rename2")
    /\ BothInWindow => rbackup # "old"

C22_Witness == BothInWindow /\ rbackup \in Runs

(***************************************************************************)
(* The wallet commands (wallet.rs).  A key is the sequence of its          *)
(* characters, the 64 hex digits of a key body being one token ("K1",      *)
(* "K2"; "zz" is a body that is not hex).  The config holds the saved key, *)
(* or nothing.                                                             *)
(***************************************************************************)
KeyBodies == {"K1", "K2"}

\* what LocalSigner::random renders as key_hex
RandomKeys == {<<"0", "x", k>> : k \in KeyBodies}

\* the keys given to `wallet import`
ImportKeys ==
    {<<"0", "x", "K1">>, <<"0", "X", "K1">>, <<"K1">>, <<"K2">>, <<"zz">>,
     <<"0", "x", "zz">>, <<"0", "x">>, <<"0">>, <<>>, <<"x", "K1">>}

StartsWith(s, prefix) ==
    /\ Len(s) >= Len(prefix)
    /\ SubSeq(s, 1, Len(prefix)) = prefix

normalize_key_lower_case_only(key) ==
    IF StartsWith(key, <<"0", "x">>)
    THEN key
    ELSE <<"0", "x">> \o key

normalize_key(key) ==
    IF StartsWith(key, <<"0", "x">>) \/ StartsWith(key, <<"0", "X">>)
    THEN key
    ELSE <<"0", "x">> \o key

\* LocalSigner::from_str: a lower-case prefix and a hex body parse, text that
\* is not that does not; the upper-case prefix is the parser's choice
FromStrOutcomes(normalized) ==
    IF normalized \in RandomKeys THEN {TRUE}
    ELSE IF Len(normalized) = 3 /\ SubSeq(normalized, 1, 2) = <<"0", "X">>
            /\ normalized[3] \in KeyBodies THEN {TRUE, FALSE}
    ELSE {FALSE}

ExistsMsg == "A wallet already exists. Use --force to overwrite."

guard_overwrite_force_inverted(force, exists) ==
    IF force /\ exists THEN Err(<<ExistsMsg>>) ELSE Ok

guard_overwrite(force, exists) ==
    IF ~force /\ exists THEN Err(<<ExistsMsg>>) ELSE Ok

config_exists == wconfig # <<>>

OutputFormats == {"Table", "Json"}

WalletInit ==
    /\ wconfig = <<>>
    /\ wlast = [cmd |-> "none"]
    /\ UpgradeIdle
    /\ RaceIdle
    /\ PureIdle

\* the record of a command: what it was given, the config it found, the steps
\* it performed, what it returned and what it printed
Ran(cmd, force, before, steps, res, out, extra) ==
    wlast' = [cmd |-> cmd, force |-> force, before |-> before, steps |-> steps,
              res |-> res, out |-> out, extra |-> extra]

CmdCreate ==
    \E force \in BOOLEAN, format \in OutputFormats :
       LET g == guard_overwrite(force, config_exists) IN
       /\ IF ~g.ok
          THEN /\ Ran("create", force, wconfig, <<"guard_overwrite">>, g, <<>>, <<>>)
               /\ UNCHANGED wconfig
          ELSE \E key \in RandomKeys, saved \in BOOLEAN :
                  IF saved
                  THEN /\ wconfig' = key
                       /\ Ran("create", force, wconfig,
                              <<"guard_overwrite", "random", "save_wallet">>, Ok,
                              IF format = "Table" THEN <<"Wallet created successfully!">>
                                               ELSE <<"{address}">>, key)
                  ELSE /\ UNCHANGED wconfig
                       /\ Ran("create", force, wconfig,
                              <<"guard_overwrite", "random", "save_wallet">>,
                              Err(<<"save_wallet">>), <<>>, key)
       /\ UNCHANGED <<upgradeVars, raceVars, pureVars>>

CmdImport ==
    \E key \in ImportKeys, force \in BOOLEAN, format \in OutputFormats :
       LET g == guard_overwrite(force, config_exists)
           normalized == normalize_key(key) IN
       /\ IF ~g.ok
          THEN /\ Ran("import", force, wconfig, <<"guard_overwrite">>, g, <<>>, key)
               /\ UNCHANGED wconfig
          ELSE \E valid \in FromStrOutcomes(normalized) :
                  IF ~valid
                  THEN /\ UNCHANGED wconfig
                       /\ Ran("import", force, wconfig,
                              <<"guard_overwrite", "from_str">>,
                              Err(<<"Invalid private key">>), <<>>, key)
                  ELSE \E saved \in BOOLEAN :
                          IF saved
                          THEN /\ wconfig' = normalized
                               /\ Ran("import", force, wconfig,
                                      <<"guard_overwrite", "from_str", "save_wallet">>, Ok,
                                      IF format = "Table"
                                      THEN <<"Wallet imported successfully!">>
                                      ELSE <<"{address}">>, key)
                          ELSE /\ UNCHANGED wconfig
                               /\ Ran("import", force, wconfig,
                                      <<"guard_overwrite", "from_str", "save_wallet">>,
                                      Err(<<"save_wallet">>), <<>>, key)
       /\ UNCHANGED <<upgradeVars, raceVars, pureVars>>

\* what the user types at the prompt, as read_line returns it; <<>> is the
\* end of input
Answers ==
    {<<"y", "\n">>, <<"Y", "\n">>, <<"y", "e", "s", "\n">>, <<"Y", "E", "S", "\n">>,
     <<"y", "E", "s">>, <<" ", "y", " ", "\n">>, <<"\t", "Y", "e", "s", "\n">>,
     <<"n", "\n">>, <<"n", "o", "\n">>, <<"\n">>, <<>>, <<" ", "\n">>,
     <<"y", "e", "\n">>, <<"y", "y", "\n">>, <<"y", " ", "e", "s", "\n">>,
     <<"y", "e", "s", "s", "\n">>, <<"o", "y", "\n">>}

Whitespace == {" ", "\t", "\n"}

RECURSIVE TrimStart(_)
TrimStart(s) ==
    IF s # <<>> /\ Head(s) \in Whitespace THEN TrimStart(Tail(s)) ELSE s

RECURSIVE TrimEnd(_)
TrimEnd(s) ==
    IF s # <<>> /\ s[Len(s)] \in Whitespace THEN TrimEnd(SubSeq(s, 1, Len(s) - 1)) ELSE s

\* str::trim
Trim(s) == TrimEnd(TrimStart(s))

LowerOf(c) ==
    CASE c = "Y" -> "y"
      [] c = "E" -> "e"
      [] c = "S" -> "s"
      [] c = "N" -> "n"
      [] c = "O" -> "o"
      [] OTHER -> c

\* str::to_lowercase
ToLowercase(s) == [i \in 1..Len(s) |-> LowerOf(s[i])]

\* a confirmation that looks at the first letter only
Confirmed_first_letter(input) ==
    LET t == ToLowercase(Trim(input)) IN t # <<>> /\ t[1] = "y"

\* matches!(input.trim().to_lowercase().as_str(), "y" | "yes")
Confirmed(input) ==
    ToLowercase(Trim(input)) \in {<<"y">>, <<"y", "e", "s">>}

NothingToReset(format) ==
    IF format = "Table" THEN "Nothing to reset. No config found."
    ELSE "{reset: false, reason: no config found}"

Prompt == "This will delete all keys and config. Are you sure? [y/N] "

CmdReset ==
    \E force \in BOOLEAN, format \in OutputFormats :
       /\ IF ~config_exists
          THEN /\ Ran("reset", force, wconfig, <<"config_exists">>, Ok,
                      <<NothingToReset(format)>>, <<>>)
               /\ UNCHANGED wconfig
          ELSE \E read \in BOOLEAN, input \in Answers, deleted \in BOOLEAN :
                  LET asked == IF force THEN <<>> ELSE <<"read_line">>
                      said == IF force THEN <<>> ELSE <<Prompt>>
                      done == IF format = "Table" THEN "Config deleted" ELSE "{reset: true}"
                  IN
                  IF ~force /\ ~read
                  THEN /\ Ran("reset", force, wconfig, <<"config_exists">> \o asked,
                              Err(<<"read_line">>), said, <<>>)
                       /\ UNCHANGED wconfig
                  ELSE IF ~force /\ ~Confirmed(input)
                  THEN /\ Ran("reset", force, wconfig, <<"config_exists">> \o asked, Ok,
                              said \o <<"Aborted.">>, input)
                       /\ UNCHANGED wconfig
                  ELSE IF ~deleted
                  THEN /\ Ran("reset", force, wconfig,
                              <<"config_exists">> \o asked \o <<"delete_config">>,
                              Err(<<"delete_config">>), said, IF force THEN <<>> ELSE input)
                       /\ UNCHANGED wconfig
                  ELSE /\ Ran("reset", force, wconfig,
                              <<"config_exists">> \o asked \o <<"delete_config">>,
                              Ok, said \o <<done>>, IF force THEN <<>> ELSE input)
                       /\ wconfig' = <<>>
       /\ UNCHANGED <<upgradeVars, raceVars, pureVars>>

WalletNext ==
    \/ CmdCreate
    \/ CmdImport
    \/ CmdReset

SpecWallet == WalletInit /\ [][WalletNext]_vars

InSeq(x, s) == \E i \in 1..Len(s) : s[i] = x

(***************************************************************************)
(* C23: a create or import run without --force on an existing config      *)
(* leaves the config as it was and fails at guard_overwrite, before any    *)
(* key is generated or validated and before save_wallet; and an import     *)
(* whose key does not validate never reaches save_wallet and leaves the    *)
(* config as it was, with or without --force.                              *)
(***************************************************************************)
C23_NoOverwriteWithoutForce ==
    wlast.cmd \in {"create", "import"} =>
       /\ (wlast.before # <<>> /\ ~wlast.force) =>
             /\ wconfig = wlast.before
             /\ ~wlast.res.ok
             /\ wlast.steps = <<"guard_overwrite">>
       /\ (wlast.cmd = "import" /\ normalize_key(wlast.extra) \notin RandomKeys
             /\ ~StartsWith(wlast.extra, <<"0", "X">>)) =>
             /\ wconfig = wlast.before
             /\ ~wlast.res.ok
             /\ ~InSeq("save_wallet", wlast.steps)
       /\ (wlast.cmd = "import" /\ wlast.res = Err(<<"Invalid private key">>)) =>
             /\ wconfig = wlast.before
             /\ ~InSeq("save_wallet", wlast.steps)

C23_Witness ==
    /\ wlast.cmd = "import"
    /\ wlast.before = <<"0", "x", "K1">>
    /\ ~wlast.force
    /\ wlast.extra = <<"K2">>
    /\ wconfig = <<"0", "x", "K1">>

(***************************************************************************)
(* C24: reset changes the config only by deleting one that exists, and     *)
(* only with --force or an answer that is 'y' or 'yes' once trimmed and    *)
(* lower-cased; with no config it prints that there is nothing to reset    *)
(* and succeeds; on any other answer it prints 'Aborted.', leaves the      *)
(* config as it was and succeeds.                                          *)
(***************************************************************************)
C24_ResetOnlyWhenConfirmed ==
    wlast.cmd = "reset" =>
       /\ wconfig # wlast.before =>
             /\ wlast.before # <<>>
             /\ wconfig = <<>>
             /\ \/ wlast.force
                \/ ToLowercase(Trim(wlast.extra)) \in {<<"y">>, <<"y", "e", "s">>}
       /\ wlast.before = <<>> =>
             /\ wconfig = <<>>
             /\ wlast.res = Ok
             /\ \E f \in OutputFormats : wlast.out = <<NothingToReset(f)>>
       /\ (wlast.before # <<>> /\ ~wlast.force /\ InSeq("read_line", wlast.steps)
             /\ wlast.res # Err(<<"read_line">>)
             /\ ToLowercase(Trim(wlast.extra)) \notin {<<"y">>, <<"y", "e", "s">>}) =>
             /\ wconfig = wlast.before
             /\ wlast.res = Ok
             /\ InSeq("Aborted.", wlast.out)

C24_Witness ==
    /\ wlast.cmd = "reset"
    /\ wlast.before # <<>>
    /\ ~wlast.force
    /\ wlast.extra = <<"\t", "Y", "e", "s", "\n">>
    /\ wconfig = <<>>

(***************************************************************************)
(* The parsing functions (ctf.rs 121-165, clob.rs 477-483,                 *)
(* wallet.rs 84-90).  A string is the sequence of its characters; a number *)
(* is the sequence of its decimal digits without leading zeros, so that    *)
(* the 64-bit and 96-bit limits are the program's own.                     *)
(***************************************************************************)
MaxKeyLen == 3
MaxParts == 2

Digits == {"0", "1", "2", "3", "4", "5", "6", "7", "8", "9"}

DigitVal(c) == CHOOSE n \in 0..9 : <<"0", "1", "2", "3", "4", "5", "6", "7", "8", "9">>[n + 1] = c

AllDigits(s) == \A i \in 1..Len(s) : s[i] \in Digits

IsZero(s) == \A i \in 1..Len(s) : s[i] = "0"

RECURSIVE StripLeadingZeros(_)
StripLeadingZeros(s) ==
    IF s # <<>> /\ Head(s) = "0" THEN StripLeadingZeros(Tail(s)) ELSE s

\* a > b for two numbers without leading zeros
Greater(a, b) ==
    \/ Len(a) > Len(b)
    \/ /\ Len(a) = Len(b)
       /\ \E i \in 1..Len(a) :
             /\ DigitVal(a[i]) > DigitVal(b[i])
             /\ \A j \in 1..(i - 1) : a[j] = b[j]

\* how a number prints
Shown(n) == IF n = <<>> THEN <<"0">> ELSE n

\* u64::MAX
U64Max ==
    <<"1", "8", "4", "4", "6", "7", "4", "4", "0", "7", "3", "7", "0", "9", "5", "5",
      "1", "6", "1", "5">>

\* Decimal::MAX, the largest 96-bit mantissa
DecimalMax ==
    <<"7", "9", "2", "2", "8", "1", "6", "2", "5", "1", "4", "2", "6", "4", "3", "3",
      "7", "5", "9", "3", "5", "4", "3", "9", "5", "0", "3", "3", "5">>

\* Decimal::from_parts(1_000_000, 0, 0, false, 0)
USDC_DECIMALS == <<"1", "0", "0", "0", "0", "0", "0">>

\* multiplying by a power of ten moves the point by the number of its zeros
Places(power) == Len(power) - 1

Value(v) == [ok |-> TRUE, val |-> v]

Panic(msg) == [ok |-> FALSE, panic |-> msg]

Panicked(r) == "panic" \in DOMAIN r

\* the position of the first c in s, or 0
RECURSIVE IndexOf(_, _)
IndexOf(s, c) ==
    IF s = <<>> THEN 0
    ELSE IF Head(s) = c THEN 1
    ELSE LET k == IndexOf(Tail(s), c) IN IF k = 0 THEN 0 ELSE k + 1

\* str::split(','): one part more than there are commas
RECURSIVE Split(_)
Split(s) ==
    LET k == IndexOf(s, ",") IN
    IF k = 0 THEN <<s>>
    ELSE <<SubSeq(s, 1, k - 1)>> \o Split(SubSeq(s, k + 1, Len(s)))

\* <Decimal as FromStr>::from_str: an optional sign, digits with at most one
\* point and at least one digit; the value is kept to 28 decimal places
\* (the inputs here have nothing to round up beyond them)
ParseDecimal(s) ==
    LET signed == s # <<>> /\ Head(s) \in {"-", "+"}
        body == IF signed THEN Tail(s) ELSE s
        dot == IndexOf(body, ".")
        int == IF dot = 0 THEN body ELSE SubSeq(body, 1, dot - 1)
        frac == IF dot = 0 THEN <<>> ELSE SubSeq(body, dot + 1, Len(body))
    IN  IF AllDigits(int) /\ AllDigits(frac) /\ Len(int) + Len(frac) > 0
        THEN [ok |-> TRUE, neg |-> signed /\ Head(s) = "-",
              int |-> StripLeadingZeros(int),
              frac |-> IF Len(frac) > 28 THEN SubSeq(frac, 1, 28) ELSE frac]
        ELSE Err(<<"Invalid decimal">>)

DecimalIsZero(val) == IsZero(val.int) /\ IsZero(val.frac)

\* val > Decimal::ZERO
Positive(val) == ~val.neg /\ ~DecimalIsZero(val)

\* val >= Decimal::ZERO
NonNegative(val) == ~val.neg \/ DecimalIsZero(val)

usdc_to_raw(val) ==
    LET k == Places(USDC_DECIMALS)
        padded == val.frac \o Rep("0", k)
        whole == StripLeadingZeros(val.int \o SubSeq(padded, 1, k))
        rest == SubSeq(val.frac, k + 1, Len(val.frac))
    IN  IF Greater(whole, DecimalMax) THEN Panic("Multiplication overflowed")
        ELSE IF ~IsZero(rest)
        THEN Err(<<"Amount exceeds USDC precision (max 6 decimal places)">>)
        ELSE IF val.neg /\ whole # <<>> THEN Err(<<"Amount too large">>)
        ELSE IF Greater(whole, U64Max) THEN Err(<<"Amount too large">>)
        ELSE Value(Shown(whole))

parse_usdc_amount(s) ==
    LET val == ParseDecimal(Trim(s)) IN
    IF ~val.ok THEN Err(Context("Invalid amount", val.chain))
    ELSE IF ~Positive(val) THEN Err(<<"Amount must be positive">>)
    ELSE usdc_to_raw(val)

\* one part of parse_usdc_amounts
parse_usdc_part(part) ==
    LET val == ParseDecimal(Trim(part)) IN
    IF ~val.ok THEN Err(Context("Invalid amount", val.chain))
    ELSE IF ~NonNegative(val) THEN Err(<<"Amount must be non-negative">>)
    ELSE usdc_to_raw(val)

\* <u64 as FromStr>::from_str: an optional '+', then digits, within 64 bits
parse_u64_part(part) ==
    LET t == Trim(part)
        body == IF t # <<>> /\ Head(t) = "+" THEN Tail(t) ELSE t
    IN  IF body # <<>> /\ AllDigits(body) /\ ~Greater(StripLeadingZeros(body), U64Max)
        THEN Value(Shown(StripLeadingZeros(body)))
        ELSE Err(<<"Invalid value">>)

\* U256::from_str on decimal digits (the inputs here are neither prefixed
\* with a radix nor empty nor beyond 256 bits)
parse_token_id(s) ==
    IF s # <<>> /\ AllDigits(s)
    THEN Value(Shown(StripLeadingZeros(s)))
    ELSE Err(<<"Invalid token ID">>)

parse_token_part(part) == parse_token_id(Trim(part))

\* Result<Vec<_>>::from_iter: the first part that does not parse ends the
\* call with its error; otherwise the values, in order
RECURSIVE Collect_skipping_errors(_)
Collect_skipping_errors(results) ==
    IF results = <<>> THEN Value(<<>>)
    ELSE IF Panicked(Head(results)) THEN Head(results)
    ELSE IF ~Head(results).ok THEN Collect_skipping_errors(Tail(results))
    ELSE Value(<<Head(results).val>> \o Collect_skipping_errors(Tail(results)).val)

RECURSIVE Collect(_)
Collect(results) ==
    IF results = <<>> THEN Value(<<>>)
    ELSE IF ~Head(results).ok THEN Head(results)
    ELSE LET rest == Collect(Tail(results)) IN
         IF ~rest.ok THEN rest ELSE Value(<<Head(results).val>> \o rest.val)

parse_usdc_amounts(s) ==
    LET parts == Split(s) IN Collect([i \in 1..Len(parts) |-> parse_usdc_part(parts[i])])

parse_u256_csv(s) ==
    LET parts == Split(s) IN Collect([i \in 1..Len(parts) |-> parse_u64_part(parts[i])])

parse_token_ids(s) ==
    LET parts == Split(s) IN Collect([i \in 1..Len(parts) |-> parse_token_part(parts[i])])

\* the amounts given to parse_usdc_amount, each with the raw units it stands
\* for (<<>> where it stands for none)
AmountCases ==
    {[s |-> <<"1", "0">>, raw |-> <<"1", "0", "0", "0", "0", "0", "0", "0">>],
     [s |-> <<"1", ".", "5">>, raw |-> <<"1", "5", "0", "0", "0", "0", "0">>],
     [s |-> <<"0", ".", "0", "1">>, raw |-> <<"1", "0", "0", "0", "0">>],
     [s |-> <<"0", ".", "0", "0", "0", "0", "0", "1">>, raw |-> <<"1">>],
     [s |-> <<" ", "1", "0", " ">>, raw |-> <<"1", "0", "0", "0", "0", "0", "0", "0">>],
     [s |-> <<"1", ".", "5", "0", "0", "0", "0", "0">>, raw |-> <<"1", "5", "0", "0", "0", "0", "0">>],
     [s |-> <<"1", ".", "5", "0", "0", "0", "0", "0", "0">>, raw |-> <<"1", "5", "0", "0", "0", "0", "0">>],
     [s |-> <<"1", "8", "4", "4", "6", "7", "4", "4", "0", "7", "3", "7", "0", "9", ".", "5", "5", "1", "6", "1", "5">>, raw |-> <<"1", "8", "4", "4", "6", "7", "4", "4", "0", "7", "3", "7", "0", "9", "5", "5", "1", "6", "1", "5">>],
     [s |-> <<"+", "2">>, raw |-> <<"2", "0", "0", "0", "0", "0", "0">>],
     [s |-> <<"0">>, raw |-> <<>>],
     [s |-> <<"0", ".", "0">>, raw |-> <<>>],
     [s |-> <<"-", "5">>, raw |-> <<>>],
     [s |-> <<"a", "b", "c">>, raw |-> <<>>],
     [s |-> <<>>, raw |-> <<>>],
     [s |-> <<"1", ".", "0", "0", "0", "0", "0", "0", "1">>, raw |-> <<>>],
     [s |-> <<"0", ".", "0", "0", "0", "0", "0", "0", "1">>, raw |-> <<>>],
     [s |-> <<"1", ".", "2", ".", "3">>, raw |-> <<>>],
     [s |-> <<"1", "8", "4", "4", "6", "7", "4", "4", "0", "7", "3", "7", "0", "9", ".", "5", "5", "1", "6", "1", "6">>, raw |-> <<>>],
     [s |-> <<"1", "0", "0", "0", "0", "0", "0", "0", "0", "0", "0", "0", "0", "0", "0", "0", "0", "0", "0", "0", "0", "0", "0", "0">>, raw |-> <<>>],
     [s |-> <<"1", ".", "0", "0", "0", "0", "0", "0", "0", "0", "0", "0", "0", "0", "0", "0", "0", "0", "0", "0", "0", "0", "0", "0", "0", "0", "0", "0", "0", "0", "1">>, raw |-> <<>>]}

\* the parts of a list given to parse_usdc_amounts, likewise
AmountParts ==
    {[s |-> <<"1", "0">>, raw |-> <<"1", "0", "0", "0", "0", "0", "0", "0">>],
     [s |-> <<" ", "5">>, raw |-> <<"5", "0", "0", "0", "0", "0", "0">>],
     [s |-> <<"2", ".", "5", " ">>, raw |-> <<"2", "5", "0", "0", "0", "0", "0">>],
     [s |-> <<"0">>, raw |-> <<"0">>],
     [s |-> <<"-", "5">>, raw |-> <<>>],
     [s |-> <<"a", "b", "c">>, raw |-> <<>>],
     [s |-> <<"1", ".", "0", "0", "0", "0", "0", "0", "1">>, raw |-> <<>>],
     [s |-> <<>>, raw |-> <<>>],
     [s |-> <<"1", "0", "0", "0", "0", "0", "0", "0", "0", "0", "0", "0", "0", "0", "0", "0", "0", "0", "0", "0", "0", "0", "0", "0">>, raw |-> <<>>]}

\* the parts of a list given to parse_u256_csv
CsvParts ==
    {[s |-> <<"1">>, raw |-> <<"1">>],
     [s |-> <<" ", "2", " ">>, raw |-> <<"2">>],
     [s |-> <<"0", "0", "7">>, raw |-> <<"7">>],
     [s |-> <<"0">>, raw |-> <<"0">>],
     [s |-> <<"1", "8", "4", "4", "6", "7", "4", "4", "0", "7", "3", "7", "0", "9", "5", "5", "1", "6", "1", "5">>, raw |-> <<"1", "8", "4", "4", "6", "7", "4", "4", "0", "7", "3", "7", "0", "9", "5", "5", "1", "6", "1", "5">>],
     [s |-> <<"a", "b", "c">>, raw |-> <<>>],
     [s |-> <<"-", "1">>, raw |-> <<>>],
     [s |-> <<>>, raw |-> <<>>],
     [s |-> <<"1", ".", "5">>, raw |-> <<>>],
     [s |-> <<"1", "8", "4", "4", "6", "7", "4", "4", "0", "7", "3", "7", "0", "9", "5", "5", "1", "6", "1", "6">>, raw |-> <<>>]}

\* the parts of a list given to parse_token_ids
TokenParts ==
    {[s |-> <<"1">>, raw |-> <<"1">>],
     [s |-> <<" ", "2">>, raw |-> <<"2">>],
     [s |-> <<"3", "0", "0", " ">>, raw |-> <<"3", "0", "0">>],
     [s |-> <<"0">>, raw |-> <<"0">>],
     [s |-> <<"a", "b", "c">>, raw |-> <<>>],
     [s |-> <<"-", "1">>, raw |-> <<>>],
     [s |-> <<"1", "2", ".", "3", "4">>, raw |-> <<>>],
     [s |-> <<"1", " ", "2">>, raw |-> <<>>]}

PartsOf(fn) ==
    CASE fn = "parse_usdc_amounts" -> AmountParts
      [] fn = "parse_u256_csv" -> CsvParts
      [] fn = "parse_token_ids" -> TokenParts

\* the parts joined with commas
RECURSIVE Join(_)
Join(parts) ==
    IF Len(parts) = 1 THEN parts[1].s
    ELSE parts[1].s \o <<",">> \o Join(Tail(parts))

\* the lists of one to MaxParts parts
Lists(fn) == SeqsUpTo(PartsOf(fn), MaxParts) \ {<<>>}

KeyChars == {"0", "x", "X", "a"}

Functions ==
    {"normalize_key", "parse_usdc_amount", "parse_usdc_amounts", "parse_u256_csv",
     "parse_token_ids"}

InputsOf(fn) ==
    CASE fn = "normalize_key" -> SeqsUpTo(KeyChars, MaxKeyLen)
      [] fn = "parse_usdc_amount" -> {c.s : c \in AmountCases}
      [] OTHER -> {Join(l) : l \in Lists(fn)}

Pending == [kind |-> "pending"]

PureInit ==
    /\ pfn \in Functions
    /\ pin \in InputsOf(pfn)
    /\ pout = Pending
    /\ UpgradeIdle
    /\ RaceIdle
    /\ WalletIdle

Call(fn, res) ==
    /\ pfn = fn
    /\ pout = Pending
    /\ pout' = res
    /\ UNCHANGED <<pfn, pin, upgradeVars, raceVars, walletVars>>

\* the key normalised, and the result normalised again
NormalizeKey ==
    Call("normalize_key",
         [once |-> normalize_key(pin), twice |-> normalize_key(normalize_key(pin))])

ParseUsdcAmount == Call("parse_usdc_amount", parse_usdc_amount(pin))

ParseUsdcAmounts == Call("parse_usdc_amounts", parse_usdc_amounts(pin))

ParseU256Csv == Call("parse_u256_csv", parse_u256_csv(pin))

ParseTokenIds == Call("parse_token_ids", parse_token_ids(pin))

PureNext ==
    \/ NormalizeKey
    \/ ParseUsdcAmount
    \/ ParseUsdcAmounts
    \/ ParseU256Csv
    \/ ParseTokenIds

SpecParse == PureInit /\ [][PureNext]_vars

Called(fn) == pfn = fn /\ pout # Pending

(***************************************************************************)
(* C25: parse_usdc_amount returns the amount times 1,000,000 for every     *)
(* strictly positive amount of at most 6 decimal places whose raw value    *)
(* fits in 64 bits, and returns an error for every other text: zero,       *)
(* negative, not a number, more than 6 significant decimal places, or a    *)
(* raw value beyond 64 bits.                                               *)
(***************************************************************************)
C25_ExactRawUnitsOrError ==
    Called("parse_usdc_amount") =>
       \A c \in AmountCases :
          c.s = pin =>
             IF c.raw # <<>>
             THEN pout = Value(c.raw)
             ELSE ~pout.ok /\ ~Panicked(pout)

(***************************************************************************)
(* C26: each list parser, given parts joined with commas, returns the      *)
(* values of the trimmed parts, one per part and in order, when every part *)
(* is valid, and otherwise fails without returning any list; for           *)
(* parse_usdc_amounts a zero part is valid and a negative part is not.     *)
(***************************************************************************)
C26_ListsAllOrNothing ==
    \A fn \in {"parse_usdc_amounts", "parse_u256_csv", "parse_token_ids"} :
       Called(fn) =>
          \A l \in Lists(fn) :
             Join(l) = pin =>
                IF \A i \in 1..Len(l) : l[i].raw # <<>>
                THEN pout = Value([i \in 1..Len(l) |-> l[i].raw])
                ELSE ~pout.ok /\ "val" \notin DOMAIN pout

C26_Witness ==
    /\ Called("parse_usdc_amounts")
    /\ pin = <<"0", ",", " ", "5">>
    /\ pout = Value(<<<<"0">>, <<"5", "0", "0", "0", "0", "0", "0">>>>)

(***************************************************************************)
(* C27: normalize_key returns a key that starts with 0x or 0X as it is and *)
(* any other key with 0x put before it; the result always starts with 0x   *)
(* or 0X, and normalising it again changes nothing.                        *)
(***************************************************************************)
C27_NormalizeKeyIdempotent ==
    Called("normalize_key") =>
       LET prefixed == Len(pin) >= 2 /\ pin[1] = "0" /\ pin[2] \in {"x", "X"} IN
       /\ prefixed => pout.once = pin
       /\ ~prefixed => pout.once = <<"0", "x">> \o pin
       /\ Len(pout.once) >= 2 /\ pout.once[1] = "0" /\ pout.once[2] \in {"x", "X"}
       /\ pout.twice = pout.once

C27_Witness ==
    /\ Called("normalize_key")
    /\ pin = <<"0", "X", "a">>
    /\ pout.twice = <<"0", "X", "a">>

====
